---- MODULE Spec2Model ----
(***************************************************************************)
(* Cross-validation data splitting and minibatch training control loop of  *)
(* the connectome-convolutional regression scripts                          *)
(* (ccnn_regr_baseline.py, ccnn_regr_public.py).                            *)
(*                                                                          *)
(* Arrays are sequences (Python index i is TLA+ index i + 1).  A float is   *)
(* an exact fraction <<n, d>> with d >= 0; d = 0 encodes the IEEE specials  *)
(* numpy produces on a division by zero: <<0,0>> is nan, <<1,0>> is inf and *)
(* <<-1,0>> is -inf.  One instance's 111 x 111 matrix is one such number.   *)
(* Python 3 division is assumed in create_train_and_test_folds (under       *)
(* Python 2 the quotient would be floored before np.ceil sees it).          *)
(***************************************************************************)
EXTENDS Integers, Sequences, FiniteSets, Bags, TLC

VARIABLES
    pc,               \* position of the script / of the function under check
    \* ---- fold construction and per-fold dataset assembly
    num_folds,        \* k
    subjects,         \* per-instance subject ids (labels_csv[:, 0])
    fold_subjects,    \* the array handed to create_train_and_test_folds
    IDs,              \* fold assignment table, a sequence of rows
    fold,             \* fold index of the last create_train_and_test_data call
    testIDs,          \* boolean mask of that call
    train_data, train_labels, test_data, test_labels,
    \* ---- training loop of one fold
    batch_size, num_steps, step, offset, batch_data, batch_labels,
    applied,          \* history: the steps whose batch reached the optimizer
    num_shuffles,     \* history: number of randomize_tensor calls in the loop
    epoch_offsets,    \* history: offsets used since the last re-shuffle
    num_train_instances, \* train_labels.shape[0]
    test_pred, test_labs, test_preds,
    evals,            \* history: number of test-set evaluations
    \* ---- r_squared
    rsq_labels, rsq_predictions, rsq,
    \* ---- final aggregation over the folds (l and p of the baseline script)
    final_l, final_p,
    \* ---- network parameters of the transfer script
    pretrained,       \* layer 1-2 tensors of weights_public.pickle
    params,           \* current value of the eight layer tensors in the graph
    saved             \* the bundle written to weights_public_regr.pickle

foldVars  == <<num_folds, subjects, fold_subjects, IDs, fold, testIDs>>
splitVars == <<train_data, train_labels, test_data, test_labels>>
loopVars  == <<batch_size, num_steps, step, offset, batch_data, batch_labels,
               applied, num_shuffles, epoch_offsets, num_train_instances>>
evalVars  == <<test_pred, test_labs, test_preds, evals>>
rsqVars   == <<rsq_labels, rsq_predictions, rsq>>
aggVars   == <<final_l, final_p>>
netVars   == <<pretrained, params, saved>>
vars == <<pc, foldVars, splitVars, loopVars, evalVars, rsqVars, aggVars, netVars>>

(***************************************************************************)
(* Bounds of the model.                                                    *)
(***************************************************************************)
MaxId == 2          \* subject ids are 0..MaxId
MaxInst == 3        \* at most this many instances in the fold model
MaxFolds == 3       \* num_folds is 1..MaxFolds
MaxTrain == 4       \* at most this many training instances in the loop model
MaxBatch == 2       \* batch_size is 1..MaxBatch in the loop model
TrainSteps == 4     \* num_steps of the loop model (15001 and 10001 in the scripts)
ScheduleTrain == 36 \* largest training set of the batch-schedule model
ScheduleSteps == 10 \* num_steps of the batch-schedule model
RsqMaxLen == 3      \* longest label vector handed to r_squared
RsqMaxVal == 2      \* labels and integer predictions are 0..RsqMaxVal
RunMaxId == 3       \* subject ids of the whole-run model are 0..RunMaxId
RunInst == 4        \* at most this many instances in the whole-run model
RunSteps == 1       \* num_steps of the whole-run model
PublicTrain == 2    \* at most this many instances in the transfer model
PublicSteps == 2    \* num_steps of the transfer model

(***************************************************************************)
(* Exact arithmetic standing in for numpy floats.                          *)
(***************************************************************************)
Abs(x) == IF x < 0 THEN -x ELSE x

RECURSIVE GCD(_, _)
GCD(a, b) == IF b = 0 THEN a ELSE GCD(b, a % b)

NaN == <<0, 0>>
NegInf == <<-1, 0>>
PosInf == <<1, 0>>

Sign(x) == IF x > 0 THEN 1 ELSE IF x < 0 THEN -1 ELSE 0

\* the fraction n/d in lowest terms; a zero denominator gives nan or +-inf
Frac(n, d) ==
    IF d = 0 THEN <<Sign(n), 0>>
    ELSE LET g == GCD(Abs(n), Abs(d))
             s == IF d < 0 THEN -1 ELSE 1
         IN <<(s * n) \div g, (s * d) \div g>>

IsNaN(x) == x = NaN
IsFinite(x) == x[2] # 0

\* x - y, x * y and x / y of two floats (finite operands only are needed
\* for - and *, any special operand gives nan)
FSub(x, y) == IF IsFinite(x) /\ IsFinite(y)
              THEN Frac(x[1] * y[2] - y[1] * x[2], x[2] * y[2])
              ELSE IF IsFinite(y) /\ ~IsNaN(x) THEN x
              ELSE IF IsFinite(x) /\ ~IsNaN(y) THEN <<-y[1], 0>>
              ELSE NaN
FMul(x, y) == IF IsFinite(x) /\ IsFinite(y)
              THEN Frac(x[1] * y[1], x[2] * y[2])
              ELSE NaN
FDiv(x, y) == IF IsFinite(x) /\ IsFinite(y)
              THEN Frac(x[1] * y[2], x[2] * y[1])
              ELSE NaN
FAbs(x) == <<Abs(x[1]), x[2]>>
FLess(x, y) == x[1] * y[2] < y[1] * x[2]
Int2F(i) == <<i, 1>>

RECURSIVE FSum(_)
FSum(s) == IF Len(s) = 0 THEN Int2F(0)
           ELSE LET r == FSum(Tail(s)) h == Head(s)
                IN Frac(h[1] * r[2] + r[1] * h[2], h[2] * r[2])

\* np.mean of an array without nan entries; the mean of no entries is nan
np_mean(s) == IF Len(s) = 0 THEN NaN ELSE FDiv(FSum(s), Int2F(Len(s)))

\* np.max of a non-empty array of finite numbers
np_max(s) == CHOOSE m \in {s[i] : i \in 1..Len(s)} :
                 \A i \in 1..Len(s) : ~FLess(m, s[i])

Range(s) == {s[i] : i \in 1..Len(s)}

\* boolean-mask indexing a[mask]
RECURSIVE MaskSelect(_, _)
MaskSelect(a, mask) ==
    IF Len(a) = 0 THEN <<>>
    ELSE IF Head(mask) THEN <<Head(a)>> \o MaskSelect(Tail(a), Tail(mask))
         ELSE MaskSelect(Tail(a), Tail(mask))

\* fancy indexing a[permutation]
Take(a, permutation) == [i \in 1..Len(a) |-> a[permutation[i]]]

(***************************************************************************)
(* normalize_tensor: subtract the mean, divide by the largest absolute     *)
(* value.  np.max of an empty array raises ValueError; a constant tensor   *)
(* divides 0 by 0 and becomes nan throughout.                              *)
(***************************************************************************)
normalize_tensor_raises(data_tensor) == Len(data_tensor) = 0

normalize_tensor(data_tensor) ==
    IF \E i \in 1..Len(data_tensor) : ~IsFinite(data_tensor[i])
    THEN [i \in 1..Len(data_tensor) |-> NaN]
    ELSE LET m == np_mean(data_tensor)
             centred == [i \in 1..Len(data_tensor) |-> FSub(data_tensor[i], m)]
             top == np_max([i \in 1..Len(data_tensor) |-> FAbs(centred[i])])
         IN [i \in 1..Len(data_tensor) |-> FDiv(centred[i], top)]

(***************************************************************************)
(* The loaded inputs.  The splitting code never looks inside a matrix or a *)
(* label, so instance i carries matrix value i and label i: a label then   *)
(* identifies its instance in the outputs.                                 *)
(***************************************************************************)
labels == [i \in 1..Len(subjects) |-> Int2F(i)]
data_tensor == normalize_tensor([i \in 1..Len(subjects) |-> Int2F(i)])

\* np.unique: the sorted distinct values of an array
RECURSIVE SortedSeq(_)
SortedSeq(S) == IF S = {} THEN <<>>
                ELSE LET m == CHOOSE x \in S : \A y \in S : x <= y
                     IN <<m>> \o SortedSeq(S \ {m})
np_unique(a) == SortedSeq(Range(a))

(***************************************************************************)
(* create_train_and_test_folds                                             *)
(***************************************************************************)
CeilDiv(a, b) == (a + b - 1) \div b

\* np.resize-style padding (repeats the array): a faulty variant of the zero padding
create_train_and_test_folds_resize(k, subj, permutation) ==
    LET n == CeilDiv(Len(subj), k)
        shuffled == Take(subj, permutation)
        s == [i \in 1..(n * k) |-> shuffled[((i - 1) % Len(subj)) + 1]]
    IN [r \in 1..n |-> [c \in 1..k |-> s[(r - 1) * k + c]]]

create_train_and_test_folds(k, subj, permutation) ==
    LET n == CeilDiv(Len(subj), k)
        shuffled == Take(subj, permutation)
        s == [i \in 1..(n * k) |-> IF i <= Len(subj) THEN shuffled[i] ELSE 0]
    IN [r \in 1..n |-> [c \in 1..k |-> s[(r - 1) * k + c]]]

\* IDs[:, f] as a sequence and as the set np.in1d tests against
Column(table, f) == [r \in 1..Len(table) |-> table[r][f + 1]]

(***************************************************************************)
(* randomize_tensor                                                        *)
(***************************************************************************)
\* faulty variant: the labels keep their order
randomize_tensor_labels_unshuffled(dataset, labs, permutation) ==
    <<Take(dataset, permutation), labs>>

randomize_tensor(dataset, labs, permutation) ==
    <<Take(dataset, permutation), Take(labs, permutation)>>

(***************************************************************************)
(* create_train_and_test_data                                              *)
(***************************************************************************)
\* faulty variant: membership of the instance's position, not of its subject id
in1d_by_position(ar1, ar2) == [i \in 1..Len(ar1) |-> i \in Range(ar2)]

in1d(ar1, ar2) == [i \in 1..Len(ar1) |-> ar1[i] \in Range(ar2)]

Not(mask) == [i \in 1..Len(mask) |-> ~mask[i]]

create_train_and_test_data_raises(f, table, subj) ==
    LET mask == in1d(subj, Column(table, f))
    IN \/ normalize_tensor_raises(MaskSelect(data_tensor, mask))
       \/ normalize_tensor_raises(MaskSelect(data_tensor, Not(mask)))

\* <<train_data, train_labels, test_data, test_labels>>
create_train_and_test_data(f, table, subj, labs, data, permutation) ==
    LET mask == in1d(subj, Column(table, f))
        t_data == normalize_tensor(MaskSelect(data, mask))
        t_labels == MaskSelect(labs, mask)
        tr_data == normalize_tensor(MaskSelect(data, Not(mask)))
        tr_labels == MaskSelect(labs, Not(mask))
        r == randomize_tensor(tr_data, tr_labels, permutation)
    IN <<r[1], r[2], t_data, t_labels>>

(***************************************************************************)
(* The fold model: build the table, then assemble one fold, any of them    *)
(* (a call depends on no earlier call).                                    *)
(***************************************************************************)
IdleLoop ==
    /\ batch_size = 0 /\ num_steps = 0 /\ step = 0 /\ offset = 0
    /\ batch_data = <<>> /\ batch_labels = <<>> /\ applied = <<>>
    /\ num_shuffles = 0 /\ epoch_offsets = <<>> /\ num_train_instances = 0
IdleEval == test_pred = <<>> /\ test_labs = <<>> /\ test_preds = <<>> /\ evals = 0
IdleRsq == rsq_labels = <<>> /\ rsq_predictions = <<>> /\ rsq = NaN
IdleAgg == final_l = <<>> /\ final_p = <<>>
IdleNet == pretrained = <<>> /\ params = <<>> /\ saved = <<>>
IdleSplit == train_data = <<>> /\ train_labels = <<>> /\ test_data = <<>>
             /\ test_labels = <<>>
IdleFolds == num_folds = 0 /\ subjects = <<>> /\ fold_subjects = <<>>
             /\ IDs = <<>> /\ fold = 0 /\ testIDs = <<>>

InitFolds ==
    /\ pc = "start"
    /\ num_folds \in 1..MaxFolds
    /\ subjects \in UNION {[1..n -> 0..MaxId] : n \in 1..MaxInst}
    /\ fold_subjects \in {np_unique(subjects), subjects}
    /\ IDs = <<>> /\ fold = 0 /\ testIDs = <<>>
    /\ IdleSplit /\ IdleLoop /\ IdleEval /\ IdleRsq /\ IdleAgg /\ IdleNet

BuildFolds ==
    /\ pc = "start"
    /\ \E permutation \in Permutations(1..Len(fold_subjects)) :
          /\ IDs' = create_train_and_test_folds(num_folds, fold_subjects, permutation)
          /\ fold_subjects' = Take(fold_subjects, permutation)
    /\ pc' = "built"
    /\ UNCHANGED <<num_folds, subjects, fold, testIDs, splitVars, loopVars,
                   evalVars, rsqVars, aggVars, netVars>>

AssembleFold ==
    /\ pc = "built"
    /\ \E f \in 0..(num_folds - 1) :
          /\ ~create_train_and_test_data_raises(f, IDs, subjects)
          /\ fold' = f
          /\ testIDs' = in1d(subjects, Column(IDs, f))
          /\ \E r \in {create_train_and_test_data(f, IDs, subjects, labels,
                                                   data_tensor, permutation) :
                            permutation \in
                                Permutations(1..Len(MaskSelect(labels, Not(testIDs'))))} :
                /\ train_data' = r[1] /\ train_labels' = r[2]
                /\ test_data' = r[3] /\ test_labels' = r[4]
    /\ pc' = "assembled"
    /\ UNCHANGED <<num_folds, subjects, fold_subjects, IDs, loopVars, evalVars,
                   rsqVars, aggVars, netVars>>

\* np.max of an empty selection raises ValueError: nothing is returned
AssembleFoldRaises ==
    /\ pc = "built"
    /\ \E f \in 0..(num_folds - 1) :
          /\ create_train_and_test_data_raises(f, IDs, subjects)
          /\ fold' = f
          /\ testIDs' = in1d(subjects, Column(IDs, f))
    /\ pc' = "raised"
    /\ UNCHANGED <<num_folds, subjects, fold_subjects, IDs, splitVars, loopVars,
                   evalVars, rsqVars, aggVars, netVars>>

NextFolds == BuildFolds \/ AssembleFold \/ AssembleFoldRaises

SpecFolds == InitFolds /\ [][NextFolds]_vars

(***************************************************************************)
(* The training loop of one fold (baseline lines 226-255, public 177-193). *)
(***************************************************************************)
Min(a, b) == IF a < b THEN a ELSE b
Max(a, b) == IF a > b THEN a ELSE b

\* Python's a % m: the result takes the sign of m; m = 0 raises
PyMod(a, m) == IF m > 0 THEN a % m ELSE -((-a) % (-m))

\* the bounds Python gives the slice [lo:hi] of an array of n rows
PySliceBounds(n, lo, hi) ==
    LET clip(i) == IF i < 0 THEN Max(i + n, 0) ELSE Min(i, n)
    IN <<clip(lo), Max(clip(lo), clip(hi))>>
PySlice(a, lo, hi) ==
    LET b == PySliceBounds(Len(a), lo, hi) IN SubSeq(a, b[1] + 1, b[2])

\* range(num_steps); the faulty variant stops one step early
LoopContinues_early(st, n_steps) == st < n_steps - 1
LoopContinues(st, n_steps) == st < n_steps

OffsetRaises(bs, n) == n - bs = 0
Offset(st, bs, n) == PyMod(st * bs, n - bs)

ReshuffleDue(off) == off = 0

BatchData(data, off, bs) == PySlice(data, off, off + bs)
\* faulty variant: the label slice ignores the offset
BatchLabels_from_start(labs, off, bs) == PySlice(labs, 0, bs)
BatchLabels(labs, off, bs) == PySlice(labs, off, off + bs)

\* the placeholders have batch_size rows: session.run rejects any other feed
FeedRaises(batch, bs) == Len(batch) # bs

\* the instances of the loop model, <<matrix, label>>: two matrices share a
\* label and two labels share a matrix
InstVals == {<<Int2F(-1), Int2F(1)>>, <<Int2F(1), Int2F(1)>>, <<Int2F(1), Int2F(2)>>}
\* what the network may predict for a test instance
PredVals == {Int2F(1), Int2F(2)}

InitTrain ==
    /\ pc = "loop"
    /\ IdleFolds /\ IdleRsq /\ IdleEval /\ IdleAgg /\ IdleNet
    /\ batch_size \in 1..MaxBatch
    /\ num_steps = TrainSteps
    /\ \E n \in 1..MaxTrain : \E inst \in [1..n -> InstVals] :
          /\ train_data = [i \in 1..n |-> inst[i][1]]
          /\ train_labels = [i \in 1..n |-> inst[i][2]]
          /\ num_train_instances = n
    /\ \E inst \in InstVals :
          /\ test_data = <<inst[1]>>
          /\ test_labels = <<inst[2]>>
    /\ step = 0 /\ offset = 0 /\ batch_data = <<>> /\ batch_labels = <<>>
    /\ applied = <<>> /\ num_shuffles = 0 /\ epoch_offsets = <<>>

\* lines 228-237: offset, re-shuffle when it is 0, then the two slices
StepArrays(permutation) ==
    LET off == Offset(step, batch_size, Len(train_labels))
        r == IF ReshuffleDue(off)
             THEN randomize_tensor(train_data, train_labels, permutation)
             ELSE <<train_data, train_labels>>
    IN [offset |-> off, data |-> r[1], labs |-> r[2],
        batch_data |-> BatchData(r[1], off, batch_size),
        batch_labels |-> BatchLabels(r[2], off, batch_size)]

StepPermutations ==
    IF ReshuffleDue(Offset(step, batch_size, Len(train_labels)))
    THEN Permutations(1..Len(train_labels))
    ELSE {[i \in 1..Len(train_labels) |-> i]}

StepEffect(a) ==
    /\ offset' = a.offset
    /\ train_data' = a.data /\ train_labels' = a.labs
    /\ batch_data' = a.batch_data /\ batch_labels' = a.batch_labels
    /\ num_shuffles' = IF ReshuffleDue(a.offset) THEN num_shuffles + 1 ELSE num_shuffles
    /\ epoch_offsets' = IF ReshuffleDue(a.offset) THEN <<a.offset>>
                        ELSE Append(epoch_offsets, a.offset)

\* one iteration of the step loop that reaches the optimizer
TrainStep ==
    /\ pc = "loop"
    /\ LoopContinues(step, num_steps)
    /\ ~OffsetRaises(batch_size, Len(train_labels))
    /\ \E permutation \in StepPermutations :
          LET a == StepArrays(permutation)
          IN /\ ~FeedRaises(a.batch_data, batch_size)
             /\ ~FeedRaises(a.batch_labels, batch_size)
             /\ StepEffect(a)
    /\ applied' = Append(applied, step)
    /\ step' = step + 1
    /\ UNCHANGED <<pc, batch_size, num_steps, num_train_instances, test_data,
                   test_labels, foldVars, evalVars, rsqVars, aggVars, netVars>>

\* the modulus train_labels.shape[0] - batch_size is 0: ZeroDivisionError
TrainStepZeroDivision ==
    /\ pc = "loop"
    /\ LoopContinues(step, num_steps)
    /\ OffsetRaises(batch_size, Len(train_labels))
    /\ pc' = "error"
    /\ UNCHANGED <<foldVars, splitVars, loopVars, evalVars, rsqVars, aggVars, netVars>>

\* the slice has fewer rows than the placeholder: session.run raises before
\* the optimizer runs
TrainStepFeedError ==
    /\ pc = "loop"
    /\ LoopContinues(step, num_steps)
    /\ ~OffsetRaises(batch_size, Len(train_labels))
    /\ \E permutation \in StepPermutations :
          LET a == StepArrays(permutation)
          IN /\ FeedRaises(a.batch_data, batch_size) \/ FeedRaises(a.batch_labels, batch_size)
             /\ StepEffect(a)
    /\ pc' = "error"
    /\ UNCHANGED <<step, applied, batch_size, num_steps, num_train_instances,
                   test_data, test_labels, foldVars, evalVars, rsqVars, aggVars, netVars>>

\* lines 249-255: after the loop, evaluate the test set once and record it
EvaluateFold ==
    /\ pc = "loop"
    /\ ~LoopContinues(step, num_steps)
    /\ test_pred' \in [1..Len(test_labels) -> PredVals]
    /\ test_labs' = Append(test_labs, test_labels)
    /\ test_preds' = Append(test_preds, test_pred')
    /\ evals' = evals + 1
    /\ pc' = "evaluated"
    /\ UNCHANGED <<foldVars, splitVars, loopVars, rsqVars, aggVars, netVars>>

NextTrain == TrainStep \/ TrainStepZeroDivision \/ TrainStepFeedError \/ EvaluateFold

Spec == InitTrain /\ [][NextTrain]_vars

(***************************************************************************)
(* The batch schedule of the same loop for the scripts' batch_size and     *)
(* training sets of realistic size.  Only positions are followed here: the *)
(* arrays themselves are left out, a re-shuffle shows as num_shuffles.     *)
(***************************************************************************)
script_batch_size == 4

InitSchedule ==
    /\ pc = "loop"
    /\ IdleFolds /\ IdleRsq /\ IdleEval /\ IdleSplit /\ IdleAgg /\ IdleNet
    /\ batch_size = script_batch_size
    /\ num_steps = ScheduleSteps
    /\ num_train_instances \in 1..ScheduleTrain
    /\ step = 0 /\ offset = 0 /\ batch_data = <<>> /\ batch_labels = <<>>
    /\ applied = <<>> /\ num_shuffles = 0 /\ epoch_offsets = <<>>

\* rows of the slice [off : off + bs] of n rows
SliceRows(n, off, bs) ==
    LET b == PySliceBounds(n, off, off + bs) IN b[2] - b[1]

ScheduleEffect(off) ==
    /\ offset' = off
    /\ num_shuffles' = IF ReshuffleDue(off) THEN num_shuffles + 1 ELSE num_shuffles
    /\ epoch_offsets' = IF ReshuffleDue(off) THEN <<off>> ELSE Append(epoch_offsets, off)

ScheduleStep ==
    /\ pc = "loop"
    /\ LoopContinues(step, num_steps)
    /\ ~OffsetRaises(batch_size, num_train_instances)
    /\ LET off == Offset(step, batch_size, num_train_instances)
       IN /\ SliceRows(num_train_instances, off, batch_size) = batch_size
          /\ ScheduleEffect(off)
    /\ applied' = Append(applied, step)
    /\ step' = step + 1
    /\ UNCHANGED <<pc, batch_size, num_steps, num_train_instances, batch_data,
                   batch_labels, foldVars, splitVars, evalVars, rsqVars, aggVars, netVars>>

ScheduleZeroDivision ==
    /\ pc = "loop"
    /\ LoopContinues(step, num_steps)
    /\ OffsetRaises(batch_size, num_train_instances)
    /\ pc' = "error"
    /\ UNCHANGED <<foldVars, splitVars, loopVars, evalVars, rsqVars, aggVars, netVars>>

ScheduleFeedError ==
    /\ pc = "loop"
    /\ LoopContinues(step, num_steps)
    /\ ~OffsetRaises(batch_size, num_train_instances)
    /\ LET off == Offset(step, batch_size, num_train_instances)
       IN /\ SliceRows(num_train_instances, off, batch_size) # batch_size
          /\ ScheduleEffect(off)
    /\ pc' = "error"
    /\ UNCHANGED <<step, applied, batch_size, num_steps, num_train_instances,
                   batch_data, batch_labels, foldVars, splitVars, evalVars, rsqVars, aggVars, netVars>>

NextSchedule == ScheduleStep \/ ScheduleZeroDivision \/ ScheduleFeedError

SpecSchedule == InitSchedule /\ [][NextSchedule]_vars

(***************************************************************************)
(* r_squared.  numpy divides by a zero ss_tot without raising: x/0 is inf  *)
(* for x > 0 and nan for x = 0.                                            *)
(***************************************************************************)
np_square(a) == [i \in 1..Len(a) |-> FMul(a[i], a[i])]
np_minus(a, b) == [i \in 1..Len(a) |-> FSub(a[i], b[i])]
np_minus_scalar(a, x) == [i \in 1..Len(a) |-> FSub(a[i], x)]

ss_res(labs, predictions) == np_mean(np_square(np_minus(labs, predictions)))
ss_tot(labs) == np_mean(np_square(np_minus_scalar(labs, np_mean(labs))))

\* faulty variant: negative values are cut off at 0
r_squared_clamped(labs, predictions) ==
    LET r == FSub(Int2F(1), FDiv(ss_res(labs, predictions), ss_tot(labs)))
    IN IF IsFinite(r) /\ r[1] < 0 THEN Int2F(0) ELSE r

r_squared(labs, predictions) ==
    FSub(Int2F(1), FDiv(ss_res(labs, predictions), ss_tot(labs)))

InitRsq ==
    /\ pc = "call"
    /\ IdleFolds /\ IdleSplit /\ IdleLoop /\ IdleEval /\ IdleAgg /\ IdleNet
    /\ \E n \in 1..RsqMaxLen :
          /\ rsq_labels \in [1..n -> {Int2F(v) : v \in 0..RsqMaxVal}]
          /\ rsq_predictions \in [1..n -> {Int2F(v) : v \in 0..RsqMaxVal}]
                                   \cup {[i \in 1..n |-> np_mean(rsq_labels)]}
    /\ rsq = NaN

RSquared ==
    /\ pc = "call"
    /\ rsq' = r_squared(rsq_labels, rsq_predictions)
    /\ pc' = "returned"
    /\ UNCHANGED <<rsq_labels, rsq_predictions, foldVars, splitVars, loopVars, evalVars,
                   aggVars, netVars>>

NextRsq == RSquared

SpecRsq == InitRsq /\ [][NextRsq]_vars

(***************************************************************************)
(* The whole baseline run (lines 143-269): the table is the one the fold   *)
(* builder made of the unique subject ids, then for every fold in turn the *)
(* dataset is assembled, the step loop runs, the test set is evaluated and *)
(* recorded, and at the end the recorded folds are stacked.                *)
(***************************************************************************)
InitRun ==
    /\ pc = "run"
    /\ num_folds \in 1..MaxFolds
    \* the instances of one subject are stored next to each other
    /\ subjects \in {q \in UNION {[1..n -> 0..RunMaxId] : n \in 1..RunInst} :
                         \A i \in 1..(Len(q) - 1) : q[i] <= q[i + 1]}
    /\ \E permutation \in Permutations(1..Len(np_unique(subjects))) :
          /\ fold_subjects = Take(np_unique(subjects), permutation)
          /\ IDs = create_train_and_test_folds(num_folds, np_unique(subjects), permutation)
    /\ fold = 0 /\ testIDs = <<>>
    /\ batch_size \in 1..MaxBatch
    /\ num_steps = RunSteps
    /\ step = 0 /\ offset = 0 /\ batch_data = <<>> /\ batch_labels = <<>>
    /\ applied = <<>> /\ num_shuffles = 0 /\ epoch_offsets = <<>>
    /\ num_train_instances = 0
    /\ IdleSplit /\ IdleEval /\ IdleRsq /\ IdleAgg /\ IdleNet

\* the value of i in "for i in range(num_folds)" when the next fold starts
NextFoldIndex == IF pc = "run" THEN 0 ELSE fold + 1

\* line 155 and the start of the fold's session: the step loop starts over
RunAssemble ==
    /\ pc \in {"run", "evaluated"}
    /\ NextFoldIndex < num_folds
    /\ ~create_train_and_test_data_raises(NextFoldIndex, IDs, subjects)
    /\ fold' = NextFoldIndex
    /\ testIDs' = in1d(subjects, Column(IDs, fold'))
    /\ \E r \in {create_train_and_test_data(fold', IDs, subjects, labels,
                                            data_tensor, permutation) :
                     permutation \in
                         Permutations(1..Len(MaskSelect(labels, Not(testIDs'))))} :
          /\ train_data' = r[1] /\ train_labels' = r[2]
          /\ test_data' = r[3] /\ test_labels' = r[4]
          /\ num_train_instances' = Len(r[2])
    /\ step' = 0 /\ applied' = <<>> /\ num_shuffles' = 0 /\ epoch_offsets' = <<>>
    /\ pc' = "loop"
    /\ UNCHANGED <<num_folds, subjects, fold_subjects, IDs, batch_size, num_steps,
                   offset, batch_data, batch_labels, evalVars, rsqVars, aggVars,
                   netVars>>

RunAssembleRaises ==
    /\ pc \in {"run", "evaluated"}
    /\ NextFoldIndex < num_folds
    /\ create_train_and_test_data_raises(NextFoldIndex, IDs, subjects)
    /\ fold' = NextFoldIndex
    /\ pc' = "error"
    /\ UNCHANGED <<num_folds, subjects, fold_subjects, IDs, testIDs, splitVars,
                   loopVars, evalVars, rsqVars, aggVars, netVars>>

\* np.vstack of the recorded folds 0 .. n - 1, in this order
RECURSIVE Stack(_, _)
Stack(list, n) == IF n = 1 THEN list[1] ELSE Stack(list, n - 1) \o list[n]

\* lines 257-269: stack all folds, compute the final R^2
Aggregate ==
    /\ pc = "evaluated"
    /\ ~(NextFoldIndex < num_folds)
    /\ final_l' = Stack(test_labs, num_folds)
    /\ final_p' = Stack(test_preds, num_folds)
    /\ rsq_labels' = final_l' /\ rsq_predictions' = final_p'
    /\ rsq' = r_squared(final_l', final_p')
    /\ pc' = "done"
    /\ UNCHANGED <<foldVars, splitVars, loopVars, evalVars, netVars>>

NextRun ==
    \/ RunAssemble \/ RunAssembleRaises
    \/ TrainStep \/ TrainStepZeroDivision \/ TrainStepFeedError
    \/ EvaluateFold \/ Aggregate

SpecRun == InitRun /\ [][NextRun]_vars

(***************************************************************************)
(* The transfer script (ccnn_regr_public.py): layers 1-2 are graph         *)
(* constants holding the tensors of the pretrained bundle, layers 3-4 are  *)
(* variables; the same step loop runs over the whole dataset, each step    *)
(* running the optimizer once, and the eight tensors are saved at the end. *)
(* A tensor is one number here.                                            *)
(***************************************************************************)
\* the tensors declared with tf.constant
Frozen == {"layer1_weights", "layer1_biases", "layer2_weights", "layer2_biases"}
\* faulty variant: all eight tensors are variables, as in the baseline script
Trainable_all ==
    Frozen \cup {"layer3_weights", "layer3_biases", "layer4_weights", "layer4_biases"}
\* the tensors declared with tf.get_variable or tf.Variable: what
\* minimize(loss) updates
Trainable == {"layer3_weights", "layer3_biases", "layer4_weights", "layer4_biases"}
LayerNames == Frozen \cup {"layer3_weights", "layer3_biases", "layer4_weights",
                           "layer4_biases"}
\* the values a tensor may take
WeightVals == {Int2F(0), Int2F(1)}
\* tf.constant(0.01, ...)
InitialBias == Frac(1, 100)

InitPublic ==
    /\ pc = "loop"
    /\ IdleFolds /\ IdleRsq /\ IdleEval /\ IdleAgg
    /\ batch_size \in 1..MaxBatch
    /\ num_steps = PublicSteps
    /\ \E n \in 1..PublicTrain :
          /\ train_data = [i \in 1..n |-> Int2F(i)]
          /\ train_labels = [i \in 1..n |-> Int2F(i)]
          /\ num_train_instances = n
    /\ test_data = <<>> /\ test_labels = <<>>
    /\ step = 0 /\ offset = 0 /\ batch_data = <<>> /\ batch_labels = <<>>
    /\ applied = <<>> /\ num_shuffles = 0 /\ epoch_offsets = <<>>
    /\ pretrained \in [Frozen -> WeightVals]
    /\ \E xavier \in [{"layer3_weights", "layer4_weights"} -> WeightVals] :
          params = [name \in LayerNames |->
                       IF name \in Frozen THEN pretrained[name]
                       ELSE IF name \in DOMAIN xavier THEN xavier[name]
                       ELSE InitialBias]
    /\ saved = <<>>

\* the optimizer op: every trainable tensor gets a new value, the others keep
\* theirs
Minimize(p, update) ==
    [name \in LayerNames |-> IF name \in Trainable THEN update[name] ELSE p[name]]

\* one iteration of the step loop that reaches the optimizer (lines 177-189)
PublicStep ==
    /\ pc = "loop"
    /\ LoopContinues(step, num_steps)
    /\ ~OffsetRaises(batch_size, Len(train_labels))
    /\ \E permutation \in StepPermutations :
          LET a == StepArrays(permutation)
          IN /\ ~FeedRaises(a.batch_data, batch_size)
             /\ ~FeedRaises(a.batch_labels, batch_size)
             /\ StepEffect(a)
    /\ applied' = Append(applied, step)
    /\ step' = step + 1
    /\ \E update \in [Trainable -> WeightVals] : params' = Minimize(params, update)
    /\ UNCHANGED <<pc, batch_size, num_steps, num_train_instances, test_data,
                   test_labels, foldVars, evalVars, rsqVars, aggVars, pretrained,
                   saved>>

\* lines 200-226: evaluate the eight tensors and write them to the bundle
SaveWeights ==
    /\ pc = "loop"
    /\ ~LoopContinues(step, num_steps)
    /\ saved' = [name \in LayerNames |-> params[name]]
    /\ pc' = "saved"
    /\ UNCHANGED <<foldVars, splitVars, loopVars, evalVars, rsqVars, aggVars,
                   pretrained, params>>

\* lines 227-229: the file cannot be written, the exception is re-raised
SaveWeightsFails ==
    /\ pc = "loop"
    /\ ~LoopContinues(step, num_steps)
    /\ pc' = "error"
    /\ UNCHANGED <<foldVars, splitVars, loopVars, evalVars, rsqVars, aggVars, netVars>>

NextPublic ==
    \/ PublicStep \/ TrainStepZeroDivision \/ TrainStepFeedError
    \/ SaveWeights \/ SaveWeightsFails

SpecPublic == InitPublic /\ [][NextPublic]_vars

(***************************************************************************)
(* Properties of the fold model.                                           *)
(***************************************************************************)
Distinct(s) == \A i, j \in 1..Len(s) : i # j => s[i] # s[j]
Count(s, x) == Cardinality({i \in 1..Len(s) : s[i] = x})
\* the table read row by row
Cells(table) ==
    IF Len(table) = 0 THEN <<>>
    ELSE [i \in 1..(Len(table) * Len(table[1])) |->
             table[((i - 1) \div Len(table[1])) + 1][((i - 1) % Len(table[1])) + 1]]
RealIds(s) == Range(s) \ {0}
\* the instances a label vector stands for (label i belongs to instance i)
Instances(labs) == {labs[i][1] : i \in 1..Len(labs)}
SubjectsOf(insts) == {subjects[i] : i \in insts}
TestFoldsOf(i) ==
    {f \in 0..(num_folds - 1) : in1d(subjects, Column(IDs, f))[i]}

\* C1 (as stated): for every subject sequence the non-sentinel ids of the
\* table are exactly the unique subject ids and none of them occurs twice.
C1_PartitionAnySequence ==
    pc # "start" =>
        /\ RealIds(Cells(IDs)) = Range(fold_subjects)
        /\ \A id \in RealIds(Cells(IDs)) : Count(Cells(IDs), id) = 1

\* C1 (amended): for pairwise distinct subject ids the table holds every
\* non-zero id in exactly one cell, its non-zero ids are exactly the non-zero
\* input ids, and the other cells are the padding zeros (plus an input 0).
C1_PartitionDistinctIds ==
    (pc # "start" /\ Distinct(fold_subjects)) =>
        /\ RealIds(Cells(IDs)) = RealIds(fold_subjects)
        /\ \A id \in RealIds(fold_subjects) : Count(Cells(IDs), id) = 1
        /\ \A id \in RealIds(fold_subjects) :
              Cardinality({f \in 0..(num_folds - 1) : id \in Range(Column(IDs, f))}) = 1
        /\ Count(Cells(IDs), 0) =
              Len(Cells(IDs)) - Len(fold_subjects) + Count(fold_subjects, 0)

\* a table built from several distinct non-zero ids, with padding
C1_Witness ==
    /\ pc = "built" /\ Distinct(fold_subjects)
    /\ Len(fold_subjects) >= 2 /\ 0 \notin Range(fold_subjects)
    /\ Len(Cells(IDs)) > Len(fold_subjects)

\* C2: an assembled fold has subject-disjoint train and test sets, and the
\* train and test instances together are all instances, each once.
C2_SplitDisjointAndComplete ==
    pc = "assembled" =>
        /\ SubjectsOf(Instances(train_labels)) \cap SubjectsOf(Instances(test_labels)) = {}
        /\ Len(train_labels) + Len(test_labels) = Len(subjects)
        /\ Instances(train_labels) \cup Instances(test_labels) = 1..Len(subjects)
        /\ Len(train_data) = Len(train_labels)
        /\ Len(test_data) = Len(test_labels)

\* a fold whose test subject has two scans, with a non-empty train set
C2_Witness ==
    /\ pc = "assembled"
    /\ Len(train_labels) >= 1
    /\ \E i, j \in Instances(test_labels) : i # j /\ subjects[i] = subjects[j]

\* C5: with S unique subjects the table is ceil(S/k) rows by k columns and
\* every instance is a test instance of exactly one fold, padding entries
\* matching no instance.
C5_EveryInstanceInOneTestFold ==
    (pc # "start" /\ Distinct(fold_subjects) /\ Range(fold_subjects) = Range(subjects)) =>
        /\ Len(IDs) = CeilDiv(Len(fold_subjects), num_folds)
        /\ \A r \in 1..Len(IDs) : Len(IDs[r]) = num_folds
        /\ \A f \in 0..(num_folds - 1) : Len(Column(IDs, f)) = Len(IDs)
        /\ \A i \in 1..Len(subjects) : Cardinality(TestFoldsOf(i)) = 1
        /\ (pc = "assembled" => \A i \in Instances(test_labels) : TestFoldsOf(i) = {fold})

(***************************************************************************)
(* Properties of the training loop.                                        *)
(***************************************************************************)
\* positions fed to the optimizer since the last re-shuffle
Covered(offs, bs) == UNION {(offs[i])..(offs[i] + bs - 1) : i \in 1..Len(offs)}

\* C3: with batch_size 4 and 36 training instances the first 9 steps use the
\* offsets 0, 4, ..., 32, each once, under one shuffle: every position of the
\* training set is fed once before the next re-shuffle.
C3_NineBatchesPerEpoch ==
    (pc = "loop" /\ batch_size = 4 /\ num_train_instances = 36 /\ step = 9) =>
        /\ num_shuffles = 1
        /\ epoch_offsets = [i \in 1..9 |-> 4 * (i - 1)]
        /\ Covered(epoch_offsets, batch_size) = 0..35

\* number of positions i with data[i] = d and labs[i] = l
PairCount(data, labs, d, l) ==
    Cardinality({i \in 1..Len(labs) : data[i] = d /\ labs[i] = l})

\* C4: a re-shuffle keeps the number of instances and the multiset of
\* (data, label) pairs: every instance keeps its own label.
C4_ShuffleKeepsPairs ==
    [][num_shuffles' # num_shuffles =>
          /\ Len(train_data') = Len(train_data)
          /\ Len(train_labels') = Len(train_labels)
          /\ \A d \in Range(train_data) \cup Range(train_data') :
             \A l \in Range(train_labels) \cup Range(train_labels') :
                PairCount(train_data', train_labels', d, l)
                    = PairCount(train_data, train_labels, d, l)]_vars

\* a shuffled training set with two different matrices and two different labels
C4_Witness ==
    /\ num_shuffles >= 1
    /\ Cardinality(Range(train_data)) = 2
    /\ Cardinality(Range(train_labels)) = 2
    /\ Len(train_labels) >= 3

\* the offsets of the loop reach every position of n rows in some batch
Tiles(bs, n) ==
    /\ n > bs
    /\ \A pos \in 0..(n - 1) : \E st \in 0..n :
          pos \in Offset(st, bs, n)..(Offset(st, bs, n) + bs - 1)

\* C8: when the training set is no larger than a batch, or some training
\* position can never fall in a batch, no training step is applied.
C8_FailsFastOnBadTiling ==
    (num_train_instances <= batch_size \/ ~Tiles(batch_size, num_train_instances))
        => applied = <<>>

\* C9: the steps that reach the optimizer are 0, 1, 2, ... in this order, the
\* test set is evaluated only after exactly num_steps of them, and only once.
C9_AllStepsThenOneEvaluation ==
    /\ applied = [i \in 1..Len(applied) |-> i - 1]
    /\ Len(applied) = step /\ step <= num_steps
    /\ pc \in {"loop", "error"} => evals = 0 /\ test_labs = <<>>
    /\ pc = "evaluated" =>
          /\ Len(applied) = num_steps
          /\ evals = 1 /\ Len(test_labs) = 1 /\ Len(test_preds) = 1

\* a fold evaluated after all of its steps
C9_Witness ==
    /\ pc = "evaluated" /\ evals = 1
    /\ Len(applied) = num_steps /\ num_steps >= 2
    /\ applied[num_steps] = num_steps - 1

\* C10: a step re-shuffles exactly when its offset
\* (step * batch_size) mod (num_train_instances - batch_size) is 0, and the
\* batch is rows offset .. offset + batch_size - 1 of the arrays as they are
\* after that re-shuffle, data and labels from the same rows.
C10_ShuffleAtOffsetZeroThenSlice ==
    [][step' = step + 1 =>
          /\ offset' = PyMod(step * batch_size, Len(train_labels) - batch_size)
          /\ (offset' = 0) <=> (num_shuffles' = num_shuffles + 1)
          /\ (offset' # 0) <=> (num_shuffles' = num_shuffles)
          /\ offset' # 0 => train_data' = train_data /\ train_labels' = train_labels
          /\ Len(batch_data') = batch_size /\ Len(batch_labels') = batch_size
          /\ \A j \in 1..batch_size :
                /\ batch_data'[j] = train_data'[offset' + j]
                /\ batch_labels'[j] = train_labels'[offset' + j]]_vars

\* a step at a non-zero offset whose batch differs from the first rows
C10_Witness ==
    /\ pc = "loop" /\ step >= 2 /\ offset > 0
    /\ batch_labels = <<train_labels[offset + 1]>>
    /\ batch_labels # <<train_labels[1]>>
    /\ num_shuffles < step

(***************************************************************************)
(* Properties of r_squared.                                                *)
(***************************************************************************)
ConstantLabels(labs) == \A i, j \in 1..Len(labs) : labs[i] = labs[j]
MeanPrediction(labs, predictions) ==
    \A i \in 1..Len(labs) : predictions[i] = np_mean(labs)
IntegerValued(a) == \A i \in 1..Len(a) : a[i][2] = 1
RECURSIVE SumInt(_, _)
SumInt(f, n) == IF n = 0 THEN 0 ELSE f[n] + SumInt(f, n - 1)
\* N^2 * sum (y - yhat)^2 and sum (N*y - sum y)^2 for integer y, yhat: their
\* quotient is mean((y - yhat)^2) / mean((y - mean(y))^2)
ResidualTerm(labs, predictions) ==
    Len(labs) * Len(labs)
        * SumInt([i \in 1..Len(labs) |->
                     (labs[i][1] - predictions[i][1]) * (labs[i][1] - predictions[i][1])],
                 Len(labs))
TotalTerm(labs) ==
    LET total == SumInt([i \in 1..Len(labs) |-> labs[i][1]], Len(labs))
    IN SumInt([i \in 1..Len(labs) |->
                  (Len(labs) * labs[i][1] - total) * (Len(labs) * labs[i][1] - total)],
              Len(labs))

\* C6 (as stated): for every label vector r_squared is 1 on a perfect
\* prediction and 0 on the constant mean prediction.
C6_PerfectIsOneMeanIsZero ==
    pc = "returned" =>
        /\ rsq_predictions = rsq_labels => rsq = Int2F(1)
        /\ MeanPrediction(rsq_labels, rsq_predictions) => rsq = Int2F(0)

\* C6 (amended): for every label vector that is not constant r_squared is 1
\* on a perfect prediction, 0 on the constant mean prediction, and in general
\* 1 - mean((y - yhat)^2) / mean((y - mean(y))^2), negative values included.
C6_NonConstantLabels ==
    (pc = "returned" /\ ~ConstantLabels(rsq_labels)) =>
        /\ rsq_predictions = rsq_labels => rsq = Int2F(1)
        /\ MeanPrediction(rsq_labels, rsq_predictions) => rsq = Int2F(0)
        /\ IsFinite(rsq)
        /\ IntegerValued(rsq_predictions) =>
              /\ rsq[1] * TotalTerm(rsq_labels)
                    = rsq[2] * (TotalTerm(rsq_labels)
                                  - ResidualTerm(rsq_labels, rsq_predictions))
              /\ ResidualTerm(rsq_labels, rsq_predictions) > TotalTerm(rsq_labels)
                    => rsq[1] < 0

\* a prediction worse than the mean of non-constant labels scores below 0
C6_Witness ==
    /\ pc = "returned" /\ ~ConstantLabels(rsq_labels)
    /\ rsq_predictions # rsq_labels
    /\ IsFinite(rsq) /\ rsq[1] < 0

\* C7: on constant labels r_squared is 0 whatever the predictions.
C7_ConstantLabelsGiveZero ==
    (pc = "returned" /\ ConstantLabels(rsq_labels)) => rsq = Int2F(0)

(***************************************************************************)
(* Properties of the whole run.                                            *)
(***************************************************************************)
\* the number of folds whose evaluation has been recorded
FinishedFolds ==
    CASE pc = "run" -> 0
      [] pc = "loop" -> fold
      [] pc = "evaluated" -> fold + 1
      [] pc = "done" -> num_folds
      [] OTHER -> evals

\* the test labels of fold f, computed from the table and the subject list
FoldTestLabels(f) == MaskSelect(labels, in1d(subjects, Column(IDs, f)))

\* both lists hold one entry per finished fold, entry j being fold j's
RunListsInFoldOrder ==
    /\ Len(test_labs) = FinishedFolds
    /\ Len(test_preds) = FinishedFolds
    /\ \A j \in 1..Len(test_labs) :
          /\ test_labs[j] = FoldTestLabels(j - 1)
          /\ Len(test_preds[j]) = Len(test_labs[j])
    /\ pc = "evaluated" => test_preds[fold + 1] = test_pred

\* the stacked vectors are the recorded folds in fold order, of equal length
StackedInFoldOrder ==
    pc = "done" =>
        /\ final_l = Stack(test_labs, num_folds)
        /\ final_p = Stack(test_preds, num_folds)
        /\ Len(final_l) = Len(final_p)

\* C11: the result lists get one entry per fold, entry j being fold j's test
\* labels and predictions; the final stacking takes them in fold order, the
\* stacked labels and predictions have equal length, and every instance of
\* the dataset occurs in them exactly once.
C11_OneEntryPerFoldEveryInstanceOnce ==
    /\ RunListsInFoldOrder
    /\ StackedInFoldOrder
    /\ pc = "done" =>
          /\ Len(final_l) = Len(subjects)
          /\ \A i \in 1..Len(subjects) : Count(final_l, labels[i]) = 1

(***************************************************************************)
(* Properties of the transfer script.                                      *)
(***************************************************************************)
FrozenEqualPretrained ==
    /\ \A name \in Frozen : params[name] = pretrained[name]
    /\ pc = "saved" => \A name \in Frozen : saved[name] = pretrained[name]

OnlyTrainableUpdated ==
    /\ pretrained' = pretrained
    /\ \A name \in LayerNames :
          params'[name] # params[name] =>
              name \in {"layer3_weights", "layer3_biases", "layer4_weights",
                        "layer4_biases"}

\* C12: in the transfer script the layer 1-2 weights and biases always equal
\* the values loaded from the pretrained bundle, a training step changes
\* layer 3-4 tensors only, and the layer 1-2 tensors written to the output
\* bundle equal the loaded ones.
C12_PretrainedLayersStayFrozen ==
    []FrozenEqualPretrained /\ [][OnlyTrainableUpdated]_vars

\* the bundle has been saved after optimizer steps that changed layers 3-4
C12_Witness ==
    /\ pc = "saved" /\ Len(applied) >= 2
    /\ saved["layer3_biases"] # InitialBias
    /\ saved["layer4_weights"] # saved["layer3_weights"]
    /\ \E name \in Frozen : saved[name] # Int2F(0)
    /\ \A name \in Frozen : saved[name] = pretrained[name]

====
